---- MODULE Spec2Model ----
(***************************************************************************)
(* Raw extended-query interface of tokio-postgres (src/raw): the pending   *)
(* buffer of the client, the Statement and Portal handles with their       *)
(* drop-triggered Close frames, the buffer-only operations prepare, bind,  *)
(* describe and execute, the flushing operations sync and simple_query,    *)
(* and the connection and server that answer the batches.                  *)
(*                                                                         *)
(* Two callers (Threads) use one client.  An operation that takes the      *)
(* buffer lock once is one step; an operation that takes the lock and then *)
(* calls send, or takes the lock twice, is one step per lock section and   *)
(* one for the send, so that the other caller can run in between.          *)
(***************************************************************************)
EXTENDS Integers, Sequences, FiniteSets, TLC

\* ------------------------------------------------------------------ bounds
\* number of calls the callers make in one behaviour: every statement,
\* portal, clone, buffered frame and batch is made by one of them
MaxCalls == 5
\* number of messages and errors a response channel hands to a polled stream
MaxLen == 2
\* number of parameter types of a statement, of parameters of a bind
MaxParams == 2
\* number of bytes of a parameter value
MaxBytes == 2
\* number of bytes of the payload of a DataRow body, and the largest column
\* count it advertises
MaxStorage == 9
MaxCols == 2
\* number of calls in a behaviour that prepares and binds with parameters
MaxBindCalls == 4

Threads == {"A", "B"}
Names == {"a"}
\* a name holding an interior NUL byte: the codec refuses to write it
NulName == "nul"
Inputs == Names \cup {NulName}

\* ------------------------------------------------------------------ frames
\* hid is the identity of the handle a Close frame was written for; it is
\* not on the wire, it tells two handles of the same name apart.
Frame(t, tag, name, stmt, hid) ==
  [t |-> t, tag |-> tag, name |-> name, stmt |-> stmt, hid |-> hid,
   params |-> <<>>]
ParseFrame(name) == Frame("Parse", "-", name, "-", 0)
BindFrame(portal, stmt, params) ==
  [Frame("Bind", "-", portal, stmt, 0) EXCEPT !.params = params]
DescribeFrame(tag, name) == Frame("Describe", tag, name, "-", 0)
ExecuteFrame(portal) == Frame("Execute", "-", portal, "-", 0)
CloseFrame(tag, name, hid) == Frame("Close", tag, name, "-", hid)
SyncFrame == Frame("Sync", "-", "-", "-", 0)
QueryFrame == Frame("Query", "-", "-", "-", 0)
\* what a frame writer leaves in the buffer when it fails half way
PartialFrame == Frame("Partial", "-", "-", "-", 0)

IsCStr(name) == name # NulName

\* result of a closure run on the buffer: ok, the buffer it leaves, and the
\* bytes it split off (<<>> when it split nothing)
Res(ok, buf, out) == [ok |-> ok, buf |-> buf, out |-> out]

\* a frame writer: appends the frame, or fails leaving a partial frame
Write(buf, name, frame) ==
  IF IsCStr(name) THEN Res(TRUE, Append(buf, frame), <<>>)
  ELSE Res(FALSE, Append(buf, PartialFrame), <<>>)

\* BytesMut::split followed by freeze: everything written so far is taken
SplitFreeze(buf) == Res(TRUE, <<>>, buf)

\* ------------------------------------------------------------- ClientCore
\* with_buf / raw_buf: run the closure on the pending buffer under the lock;
\* a failing closure leaves the buffer as it was before the call
\* a raw_buf that leaves what a failed closure has written
RawBufKeep(buf, r) == r.buf
RawBuf(buf, r) == IF r.ok THEN r.buf ELSE buf
WithBuf(buf, r) == IF r.ok THEN r.buf ELSE buf

VARIABLES
  client,    \* the user still holds the Client (one strong reference)
  strong,    \* strong count of the Arc<InnerClient>
  connOpen,  \* the connection task still accepts requests
  pending,   \* the pending buffer, a sequence of frames
  stmts,     \* the StatementInner objects created so far
  portals,   \* the portal Inner objects created so far
  pc,        \* where each caller is inside a multi-step operation
  loc,       \* the locals of each caller
  sent,      \* the requests handed to the connection, in order: who sent
             \* each and the Close frames in it
  backend,   \* the behaviour follows the batches into the server
  queue,     \* the batches the server has not read yet (when backend)
  rx,        \* rx[i]: messages delivered on the response channel of sent[i]
  cur,       \* index of the request at the front of the connection's queue
  skipping,  \* the server discards frames until the next Sync
  calls,     \* number of calls made so far
  log,       \* the frames the operations have appended since the last split
  last,      \* the step just taken: operation and outcome
  gone,      \* the response channels whose stream the user has dropped
  stream,    \* a stream under poll: its kind, what its response channel
             \* still holds, the items yielded so far, whether it has ended
  codec      \* a call of encode_bind or Row::new: its arguments and, once
             \* it has returned, its result

vars == <<client, strong, connOpen, pending, stmts, portals, pc, loc, sent,
          backend, queue, rx, cur, skipping, calls, log, last, gone, stream,
          codec>>

Idle == [batch |-> <<>>, h |-> 0, empty |-> FALSE, owed |-> {}, ahead |-> {}]

Last(op, ok) == [op |-> op, ok |-> ok]

Start ==
  /\ client = TRUE
  /\ strong = 1
  /\ connOpen = TRUE
  /\ pending = <<>>
  /\ stmts = <<>>
  /\ portals = <<>>
  /\ pc = [t \in Threads |-> "idle"]
  /\ loc = [t \in Threads |-> Idle]
  /\ sent = <<>>
  /\ queue = <<>>
  /\ rx = <<>>
  /\ cur = 1
  /\ skipping = FALSE
  /\ calls = 0
  /\ log = <<>>
  /\ last = Last("init", TRUE)
  /\ gone = {}

\* no stream is being polled
NoStream ==
  [kind |-> "none", chan |-> <<>>, read |-> <<>>, items |-> <<>>, ended |-> FALSE]

\* no encode_bind and no Row::new is being followed
NoCodec == [op |-> "none", args |-> <<>>, done |-> FALSE, out |-> <<>>]

\* the client and its two callers; the server is left out
Init == Start /\ backend = FALSE /\ stream = NoStream /\ codec = NoCodec
\* the client with the server that answers its batches
InitWire == Start /\ backend = TRUE /\ stream = NoStream /\ codec = NoCodec

\* ---------------------------------------------------------------- handles
\* a handle that keeps the client alive: it holds an Arc instead of a Weak
DowngradeStrong(n) == n + 1

\* Arc::downgrade in Statement::new / Portal::new: the handle keeps a Weak,
\* the strong count of the client stays what it was
Downgrade(n) == n

\* Weak::upgrade at drop time: fails once the client is released, otherwise
\* holds the client for the duration of the drop
Upgrade(n) == IF n > 0 THEN [ok |-> TRUE, strong |-> n + 1]
              ELSE [ok |-> FALSE, strong |-> n]

\* a portal that does not keep its statement
PortalNewUnheld(stmt, name) ==
  [name |-> name, stmt |-> stmt, refs |-> 1, holds |-> FALSE, done |-> "no"]

\* Statement::new and Portal::new
StatementNew(name, types) ==
  [name |-> name, param_types |-> types, refs |-> 1, done |-> "no"]
PortalNew(stmt, name) ==
  [name |-> name, stmt |-> stmt, refs |-> 1, holds |-> TRUE, done |-> "no"]

\* strong count of the Arc<StatementInner>: the user's clones and the
\* portals holding the statement in their _statement field
StmtArc(ss, pp, s) ==
  ss[s].refs + Cardinality({p \in DOMAIN pp : pp[p].holds /\ pp[p].stmt = s})

\* raw_buf(|buf| buf.is_empty()) in StatementInner::drop
IsEmpty(buf) == buf = <<>>

\* a bind that checks the number of parameters against the statement
EncodeBindChecked(statement, params, portal, buf) ==
  IF Len(params) = Len(statement.param_types)
  THEN Write(buf, portal, BindFrame(portal, statement.name, params))
  ELSE Res(FALSE, buf, <<>>)

\* encode_bind: the Bind frame carries the parameters it is given, however
\* many the statement declares
EncodeBind(statement, params, portal, buf) ==
  Write(buf, portal, BindFrame(portal, statement.name, params))

\* the closures of the two destructors and of sync and simple_query
StmtCloseSync(buf, name, s) ==
  SplitFreeze(Append(Append(buf, CloseFrame("S", name, s)), SyncFrame))
StmtCloseOnly(buf, name, s) ==
  Res(TRUE, Append(buf, CloseFrame("S", name, s)), <<>>)
PortalCloseSync(buf, name, p) ==
  SplitFreeze(Append(Append(buf, CloseFrame("P", name, p)), SyncFrame))
\* sync closures that ship only the Sync, that forget the Sync, and that
\* copy the buffer without splitting it
SyncClosureBare(buf) == Res(TRUE, <<>>, <<SyncFrame>>)
SyncClosureNoSync(buf) == SplitFreeze(buf)
SyncClosureKeep(buf) == Res(TRUE, buf, Append(buf, SyncFrame))
\* a sync closure that appends the Sync twice
SyncClosureTwice(buf) == SplitFreeze(Append(Append(buf, SyncFrame), SyncFrame))
SyncClosure(buf) == SplitFreeze(Append(buf, SyncFrame))
\* a simple_query closure that hands over a copy of its frame and leaves
\* the buffer unsplit
QueryClosureKeep(buf, q) ==
  LET w == Write(buf, q, QueryFrame)
  IN IF w.ok THEN Res(TRUE, w.buf, w.buf) ELSE w
QueryClosure(buf, q) ==
  LET w == Write(buf, q, QueryFrame)
  IN IF w.ok THEN SplitFreeze(w.buf) ELSE w

\* a prepare that flushes its Parse at once
ParseClosureEager(buf, name) == SplitFreeze(Append(buf, ParseFrame(name)))

\* a prepare that returns a Statement for a name the encoder refused
ParseClosureUnchecked(buf, name) == Res(TRUE, Append(buf, ParseFrame(name)), <<>>)

\* the closures of the buffer-only operations
ParseClosure(buf, name) == Write(buf, name, ParseFrame(name))
BindClosure(buf, statement, params, portal) ==
  EncodeBind(statement, params, portal, buf)
DescribeClosure(buf, tag, name) == Write(buf, name, DescribeFrame(tag, name))
ExecuteClosure(buf, portal) == Write(buf, portal, ExecuteFrame(portal))

\* handles whose destructor has run to its end with the client alive, and
\* no sync() has been called since
Dropped ==
  {<<"S", s>> : s \in {x \in DOMAIN stmts : stmts[x].done = "alive"}}
  \cup {<<"P", p>> : p \in {x \in DOMAIN portals : portals[x].done = "alive"}}

\* a sync() is called: the handles dropped before it are no longer fresh
Synced(hs) ==
  [i \in DOMAIN hs |->
     IF hs[i].done = "alive" THEN [hs[i] EXCEPT !.done = "synced"] ELSE hs[i]]

\* a call is made, within the budget of calls
Call == calls < MaxCalls /\ calls' = calls + 1

ToIdle(t) ==
  /\ pc' = [pc EXCEPT ![t] = "idle"]
  /\ loc' = [loc EXCEPT ![t] = Idle]

\* StatementInner::drop, up to the emptiness check (statement.rs 16-17).
\* ss: the statements with the reference already released; n: strong count
StmtDropBegin(t, s, ss, n) ==
  LET u == Upgrade(n) IN
  IF u.ok
  THEN /\ strong' = u.strong
       /\ stmts' = ss
       /\ pc' = [pc EXCEPT ![t] = "sdrop_write"]
       /\ loc' = [loc EXCEPT ![t] = [Idle EXCEPT !.h = s, !.empty = IsEmpty(pending)]]
  ELSE /\ strong' = n
       /\ stmts' = [ss EXCEPT ![s].done = "dead"]
       /\ ToIdle(t)

\* a destructor that runs on every release, not only on the last one
ReleaseStmtAlways(t, s, ss, pp, n) == StmtDropBegin(t, s, ss, n)

\* one reference to statement s has been released (ss, pp already say so):
\* the destructor runs when it was the last one
ReleaseStmt(t, s, ss, pp, n) ==
  IF StmtArc(ss, pp, s) > 0
  THEN /\ strong' = n
       /\ stmts' = ss
       /\ ToIdle(t)
  ELSE StmtDropBegin(t, s, ss, n)

\* the Close frames of a batch, in order, by tag and handle
RECURSIVE Closes(_)
Closes(frames) ==
  IF frames = <<>> THEN <<>>
  ELSE (IF Head(frames).t = "Close"
        THEN <<<<Head(frames).tag, Head(frames).hid>>>> ELSE <<>>)
       \o Closes(Tail(frames))

\* the handles whose Close frame has been handed to the connection
OnWire ==
  UNION {{sent[i].closes[j] : j \in 1..Len(sent[i].closes)} : i \in 1..Len(sent)}

\* InnerClient::send: the batch joins the connection's queue with a fresh
\* response channel, or the call fails with Closed
Send(by, t) ==
  IF connOpen
  THEN /\ sent' = Append(sent, [by |-> by, closes |-> Closes(loc[t].batch),
                                owed |-> loc[t].owed \ OnWire,
                                late |-> loc[t].ahead \cap {u \in Threads : pc[u] = "sync_send"}])
       /\ queue' = IF backend THEN Append(queue, loc[t].batch) ELSE queue
       /\ rx' = IF backend THEN Append(rx, <<>>) ELSE rx
  ELSE UNCHANGED <<sent, queue, rx>>

\* the caller that starts the next operation: the two callers are alike, so
\* an idle caller is taken in a fixed order
Free(t) == pc[t] = "idle" /\ (t = "A" \/ pc["A"] # "idle")

\* ------------------------------------------------------------- operations
\* prepare / internal_prepare
Prepare(t, name, types) ==
  /\ client /\ Free(t) /\ Call
  /\ LET r == ParseClosure(pending, name) IN
     /\ pending' = RawBuf(pending, r)
     /\ stmts' = IF r.ok THEN Append(stmts, StatementNew(name, types)) ELSE stmts
     /\ strong' = IF r.ok THEN Downgrade(strong) ELSE strong
     /\ log' = IF r.ok THEN Append(log, ParseFrame(name)) ELSE log
     /\ last' = Last("prepare", r.ok)
  /\ UNCHANGED <<client, connOpen, portals, pc, loc, sent, backend, queue, rx, cur, skipping>>
  /\ UNCHANGED <<gone, stream, codec>>

\* bind: the statement is moved in; it ends in the portal, or is dropped
\* when the frame cannot be encoded
Bind(t, s, name, params) ==
  /\ client /\ Free(t) /\ Call
  /\ s \in DOMAIN stmts /\ stmts[s].refs > 0
  /\ LET r == BindClosure(pending, stmts[s], params, name)
         ss == [stmts EXCEPT ![s].refs = @ - 1]
     IN
     /\ pending' = RawBuf(pending, r)
     /\ log' = IF r.ok THEN Append(log, BindFrame(name, stmts[s].name, params)) ELSE log
     /\ last' = Last("bind", r.ok)
     /\ IF r.ok
        THEN /\ portals' = Append(portals, PortalNew(s, name))
             /\ stmts' = ss
             /\ strong' = Downgrade(strong)
             /\ UNCHANGED <<pc, loc>>
        ELSE /\ portals' = portals
             /\ ReleaseStmt(t, s, ss, portals, strong)
  /\ UNCHANGED <<client, connOpen, sent, backend, queue, rx, cur, skipping>>
  /\ UNCHANGED <<gone, stream, codec>>

\* describe
Describe(t, tag, name) ==
  /\ client /\ Free(t) /\ Call
  /\ LET r == DescribeClosure(pending, tag, name) IN
     /\ pending' = RawBuf(pending, r)
     /\ log' = IF r.ok THEN Append(log, DescribeFrame(tag, name)) ELSE log
     /\ last' = Last("describe", r.ok)
  /\ UNCHANGED <<client, strong, connOpen, stmts, portals, pc, loc, sent, backend,
                 queue, rx, cur, skipping>>
  /\ UNCHANGED <<gone, stream, codec>>

\* execute
Execute(t, p) ==
  /\ client /\ Free(t) /\ Call
  /\ p \in DOMAIN portals /\ portals[p].refs > 0
  /\ LET r == ExecuteClosure(pending, portals[p].name) IN
     /\ pending' = RawBuf(pending, r)
     /\ log' = IF r.ok THEN Append(log, ExecuteFrame(portals[p].name)) ELSE log
     /\ last' = Last("execute", r.ok)
  /\ UNCHANGED <<client, strong, connOpen, stmts, portals, pc, loc, sent, backend,
                 queue, rx, cur, skipping>>
  /\ UNCHANGED <<gone, stream, codec>>

\* sync, the locked section: append Sync, split, freeze
SyncBuf(t) ==
  /\ client /\ Free(t) /\ Call
  /\ LET r == SyncClosure(pending) IN
     /\ pending' = WithBuf(pending, r)
     /\ pc' = [pc EXCEPT ![t] = "sync_send"]
     /\ loc' = [loc EXCEPT ![t] = [Idle EXCEPT !.batch = r.out,
                  !.owed = Dropped \ (OnWire \cup {Closes(r.out)[j] : j \in 1..Len(Closes(r.out))}),
                  !.ahead = {u \in Threads : pc[u] = "sync_send"}]]
  /\ stmts' = Synced(stmts)
  /\ portals' = Synced(portals)
  /\ log' = <<>>
  /\ last' = Last("sync_buf", TRUE)
  /\ UNCHANGED <<client, strong, connOpen, sent, backend, queue, rx, cur, skipping>>
  /\ UNCHANGED <<gone, stream, codec>>

\* sync, the send and the return of the QueryStream
SyncSend(t) ==
  /\ pc[t] = "sync_send"
  /\ Send("sync", t)
  /\ ToIdle(t)
  /\ last' = Last("sync", connOpen)
  /\ UNCHANGED <<calls, log, client, strong, connOpen, pending, stmts, portals, backend,
                 cur, skipping>>
  /\ UNCHANGED <<gone, stream, codec>>

\* simple_query, the locked section (encode)
SimpleQueryBuf(t, q) ==
  /\ client /\ Free(t) /\ Call
  /\ LET r == QueryClosure(pending, q) IN
     /\ pending' = WithBuf(pending, r)
     /\ IF r.ok
        THEN /\ pc' = [pc EXCEPT ![t] = "sq_send"]
             /\ loc' = [loc EXCEPT ![t] = [Idle EXCEPT !.batch = r.out]]
        ELSE UNCHANGED <<pc, loc>>
     /\ log' = IF r.ok THEN <<>> ELSE log
     /\ last' = Last("simple_query_buf", r.ok)
  /\ UNCHANGED <<client, strong, connOpen, stmts, portals, sent, backend, queue,
                 rx, cur, skipping>>
  /\ UNCHANGED <<gone, stream, codec>>

\* simple_query, the send and the return of the SimpleQueryStream
SimpleQuerySend(t) ==
  /\ pc[t] = "sq_send"
  /\ Send("simple_query", t)
  /\ ToIdle(t)
  /\ last' = Last("simple_query", connOpen)
  /\ UNCHANGED <<calls, log, client, strong, connOpen, pending, stmts, portals, backend,
                 cur, skipping>>
  /\ UNCHANGED <<gone, stream, codec>>

\* Statement::clone and Portal::clone
CloneStatement(t, s) ==
  /\ Free(t) /\ Call
  /\ s \in DOMAIN stmts /\ stmts[s].refs > 0
  /\ stmts' = [stmts EXCEPT ![s].refs = @ + 1]
  /\ last' = Last("clone_stmt", TRUE)
  /\ UNCHANGED <<log, client, strong, connOpen, pending, portals, pc, loc, sent, backend,
                 queue, rx, cur, skipping>>
  /\ UNCHANGED <<gone, stream, codec>>

ClonePortal(t, p) ==
  /\ Free(t) /\ Call
  /\ p \in DOMAIN portals /\ portals[p].refs > 0
  /\ portals' = [portals EXCEPT ![p].refs = @ + 1]
  /\ last' = Last("clone_portal", TRUE)
  /\ UNCHANGED <<log, client, strong, connOpen, pending, stmts, pc, loc, sent, backend,
                 queue, rx, cur, skipping>>
  /\ UNCHANGED <<gone, stream, codec>>

\* a Statement clone goes out of scope
DropStatement(t, s) ==
  /\ Free(t) /\ Call
  /\ s \in DOMAIN stmts /\ stmts[s].refs > 0
  /\ ReleaseStmt(t, s, [stmts EXCEPT ![s].refs = @ - 1], portals, strong)
  /\ last' = Last("drop_stmt", TRUE)
  /\ UNCHANGED <<log, client, connOpen, pending, portals, sent, backend, queue, rx, cur,
                 skipping>>
  /\ UNCHANGED <<gone, stream, codec>>

\* StatementInner::drop, the write (statement.rs 17-29)
StmtDropWrite(t) ==
  /\ pc[t] = "sdrop_write"
  /\ LET s == loc[t].h IN
     IF loc[t].empty
     THEN LET r == StmtCloseSync(pending, stmts[s].name, s) IN
          /\ pending' = WithBuf(pending, r)
          /\ pc' = [pc EXCEPT ![t] = "sdrop_send"]
          /\ loc' = [loc EXCEPT ![t].batch = r.out]
          /\ log' = <<>>
          /\ UNCHANGED <<strong, stmts>>
     ELSE LET r == StmtCloseOnly(pending, stmts[s].name, s) IN
          /\ pending' = RawBuf(pending, r)
          /\ strong' = strong - 1
          /\ stmts' = [stmts EXCEPT ![s].done = "alive"]
          /\ log' = Append(log, CloseFrame("S", stmts[s].name, s))
          /\ ToIdle(t)
  /\ last' = Last("sdrop_write", TRUE)
  /\ UNCHANGED <<calls, client, connOpen, portals, sent, backend, queue, rx, cur, skipping>>
  /\ UNCHANGED <<gone, stream, codec>>

\* StatementInner::drop, the send whose result is ignored (statement.rs 24)
StmtDropSend(t) ==
  /\ pc[t] = "sdrop_send"
  /\ Send("drop_stmt", t)
  /\ strong' = strong - 1
  /\ stmts' = [stmts EXCEPT ![loc[t].h].done = "alive"]
  /\ ToIdle(t)
  /\ last' = Last("sdrop_send", TRUE)
  /\ UNCHANGED <<calls, log, client, connOpen, pending, portals, backend, cur, skipping>>
  /\ UNCHANGED <<gone, stream, codec>>

\* a Portal clone goes out of scope; Inner::drop up to the end of its locked
\* section when it was the last one (portal.rs 16-21)
DropPortal(t, p) ==
  /\ Free(t) /\ Call
  /\ p \in DOMAIN portals /\ portals[p].refs > 0
  /\ last' = Last("drop_portal", TRUE)
  /\ IF portals[p].refs > 1
     THEN /\ portals' = [portals EXCEPT ![p].refs = @ - 1]
          /\ UNCHANGED <<strong, pending, stmts, pc, loc, log>>
     ELSE LET u == Upgrade(strong) IN
          IF u.ok
          THEN LET r == PortalCloseSync(pending, portals[p].name, p) IN
               /\ portals' = [portals EXCEPT ![p].refs = 0]
               /\ strong' = u.strong
               /\ pending' = WithBuf(pending, r)
               /\ pc' = [pc EXCEPT ![t] = "pdrop_send"]
               /\ loc' = [loc EXCEPT ![t] = [Idle EXCEPT !.h = p, !.batch = r.out]]
               /\ stmts' = stmts
               /\ log' = <<>>
          ELSE LET pp == [portals EXCEPT ![p].refs = 0, ![p].holds = FALSE,
                                         ![p].done = "dead"]
               IN /\ portals' = pp
                  /\ pending' = pending
                  /\ log' = log
                  /\ ReleaseStmt(t, portals[p].stmt, stmts, pp, strong)
  /\ UNCHANGED <<client, connOpen, sent, backend, queue, rx, cur, skipping>>
  /\ UNCHANGED <<gone, stream, codec>>

\* Inner::drop, the send whose result is ignored, then the fields are
\* dropped: the portal lets go of its statement (portal.rs 22-24, 10)
PortalDropSend(t) ==
  /\ pc[t] = "pdrop_send"
  /\ Send("drop_portal", t)
  /\ LET p == loc[t].h
         pp == [portals EXCEPT ![p].holds = FALSE, ![p].done = "alive"]
     IN /\ portals' = pp
        /\ ReleaseStmt(t, portals[p].stmt, stmts, pp, strong - 1)
  /\ last' = Last("pdrop_send", TRUE)
  /\ UNCHANGED <<calls, log, client, connOpen, pending, backend, cur, skipping>>
  /\ UNCHANGED <<gone, stream, codec>>

\* the user lets go of the Client; no call borrows it at that moment
DropClient ==
  /\ client /\ Call
  /\ \A t \in Threads : pc[t] \notin {"sync_send", "sq_send"}
  /\ client' = FALSE
  /\ strong' = strong - 1
  /\ last' = Last("drop_client", TRUE)
  /\ UNCHANGED <<log, connOpen, pending, stmts, portals, pc, loc, sent, backend, queue,
                 rx, cur, skipping>>
  /\ UNCHANGED <<gone, stream, codec>>

\* the connection task ends: send fails with Closed from now on
CloseConn ==
  /\ connOpen /\ Call
  /\ connOpen' = FALSE
  /\ last' = Last("close_conn", TRUE)
  /\ UNCHANGED <<log, client, strong, pending, stmts, portals, pc, loc, sent, backend,
                 queue, rx, cur, skipping>>
  /\ UNCHANGED <<gone, stream, codec>>

\* ------------------------------------------------- server and connection
\* what the server answers to one frame it executes
Reply(f, rows) ==
  CASE f.t = "Parse" -> <<"ParseComplete">>
    [] f.t = "Bind" -> <<"BindComplete">>
    [] f.t = "Describe" ->
         (IF f.tag = "S" THEN <<"ParameterDescription">> ELSE <<>>)
         \o (IF rows THEN <<"RowDescription">> ELSE <<"NoData">>)
    [] f.t = "Execute" ->
         (IF rows THEN <<"DataRow">> ELSE <<>>) \o <<"CommandComplete">>
    [] f.t = "Close" -> <<"CloseComplete">>
    [] f.t = "Query" ->
         (IF rows THEN <<"RowDescription", "DataRow">> ELSE <<>>)
         \o <<"CommandComplete">>
    [] OTHER -> <<"ErrorResponse">>

\* the server reads frames i.. of a batch; frame k (0: none) fails; after an
\* ErrorResponse it discards frames up to the frame that ends the pipeline
RECURSIVE Serve(_, _, _, _, _)
Serve(frames, i, k, rows, skip) ==
  IF i > Len(frames) THEN [out |-> <<>>, skip |-> skip]
  ELSE LET f == frames[i]
           one ==
             IF f.t = "Sync"
             THEN [out |-> <<"ReadyForQuery">>, skip |-> FALSE]
             ELSE IF f.t = "Query"
             THEN [out |-> (IF i = k \/ skip THEN <<"ErrorResponse">>
                            ELSE Reply(f, rows)) \o <<"ReadyForQuery">>,
                   skip |-> FALSE]
             ELSE IF skip THEN [out |-> <<>>, skip |-> TRUE]
             ELSE IF i = k \/ f.t = "Partial"
             THEN [out |-> <<"ErrorResponse">>, skip |-> TRUE]
             ELSE [out |-> Reply(f, rows), skip |-> FALSE]
           rest == Serve(frames, i + 1, k, rows, one.skip)
       IN [out |-> one.out \o rest.out, skip |-> rest.skip]

\* a connection that forgets a request as soon as its stream is dropped:
\* the answers to its batch go to the request behind it
RECURSIVE DeliverStale(_, _, _)
DeliverStale(chans, c, msgs) ==
  IF msgs = <<>> THEN [rx |-> chans, cur |-> c]
  ELSE LET m == Head(msgs)
           d == IF c \in gone THEN c + 1 ELSE c
           here == d <= Len(chans)
           chans1 == IF here THEN [chans EXCEPT ![d] = Append(@, m)] ELSE chans
           c1 == IF here /\ m = "ReadyForQuery" THEN d + 1 ELSE d
       IN DeliverStale(chans1, c1, Tail(msgs))

\* the connection hands each backend message to the request at the front of
\* its queue and moves to the next request after ReadyForQuery; a message
\* for a request whose stream was dropped is discarded
RECURSIVE Deliver(_, _, _)
Deliver(chans, c, msgs) ==
  IF msgs = <<>> THEN [rx |-> chans, cur |-> c]
  ELSE LET m == Head(msgs)
           here == c <= Len(chans)
           chans1 == IF here /\ c \notin gone
                     THEN [chans EXCEPT ![c] = Append(@, m)] ELSE chans
           c1 == IF here /\ m = "ReadyForQuery" THEN c + 1 ELSE c
       IN Deliver(chans1, c1, Tail(msgs))

\* the server reads the next batch and its answers reach the channels
Respond(k, rows) ==
  /\ queue # <<>>
  /\ k \in 0..Len(Head(queue))
  /\ k > 0 => Head(queue)[k].t # "Sync"
  /\ LET r == Serve(Head(queue), 1, k, rows, skipping)
         d == Deliver(rx, cur, r.out)
     IN /\ rx' = d.rx
        /\ cur' = d.cur
        /\ skipping' = r.skip
  /\ queue' = Tail(queue)
  /\ last' = Last("respond", k = 0)
  /\ UNCHANGED <<calls, log, client, strong, connOpen, pending, stmts, portals, pc, loc,
                 sent, backend>>
  /\ UNCHANGED <<gone, stream, codec>>

\* the user drops the QueryStream of a sync before its ReadyForQuery has
\* arrived: the receiving end of the response channel is gone
DropStream(c) ==
  /\ Free("A") /\ Call
  /\ c \in 1..Len(rx) /\ c \notin gone /\ c >= cur
  /\ sent[c].by = "sync"
  /\ gone' = gone \cup {c}
  /\ last' = Last("drop_stream", TRUE)
  /\ UNCHANGED <<client, strong, connOpen, pending, stmts, portals, pc, loc, sent,
                 backend, queue, rx, cur, skipping, log, stream, codec>>

\* ---------------------------------------------------------------- streams
\* the kinds of message a backend can send
BackendKinds ==
  {"AuthenticationOk", "BackendKeyData", "BindComplete", "CloseComplete",
   "CommandComplete", "CopyData", "CopyDone", "CopyInResponse",
   "CopyOutResponse", "DataRow", "EmptyQueryResponse", "ErrorResponse",
   "NoData", "NoticeResponse", "NotificationResponse",
   "ParameterDescription", "ParameterStatus", "ParseComplete",
   "PortalSuspended", "ReadyForQuery", "RowDescription"}

\* what Responses::poll_next hands to a stream: a message, or an error of
\* the channel (Closed when the connection is gone, or another one)
Msg(m) == [ok |-> TRUE, v |-> m]
Fail(e) == [ok |-> FALSE, v |-> e]
Events == {Msg(m) : m \in BackendKinds} \cup {Fail("Closed"), Fail("Io")}

\* what poll_next returns when it is ready
ItemOk(m) == [item |-> "Ok", msg |-> m]
ItemErr(e) == [item |-> "Err", msg |-> e]
EndOfStream == [item |-> "None", msg |-> "-"]

\* an accepted kind is missing, an extended-query kind is accepted
QueryStreamKindsNoError ==
  {"DataRow", "ParseComplete", "BindComplete", "ParameterDescription",
   "RowDescription", "EmptyQueryResponse", "CommandComplete",
   "PortalSuspended", "ReadyForQuery", "NoData"}
SimpleQueryStreamKindsExtended ==
  {"CommandComplete", "RowDescription", "DataRow", "ReadyForQuery",
   "EmptyQueryResponse", "ErrorResponse", "ParseComplete"}

\* Closed surfaced as an error item
PollErrAsItem(e) == ItemErr(e)

\* the Err(e) arm of both poll_next functions
PollErr(e) == IF e = "Closed" THEN EndOfStream ELSE ItemErr(e)

QueryStreamKinds ==
  {"DataRow", "ParseComplete", "BindComplete", "ParameterDescription",
   "RowDescription", "EmptyQueryResponse", "CommandComplete",
   "PortalSuspended", "ReadyForQuery", "NoData", "ErrorResponse"}

\* QueryStream::poll_next on a message of the response channel
QueryStreamPoll(m) ==
  IF m \in QueryStreamKinds THEN [item |-> "Ok", msg |-> m]
  ELSE [item |-> "Err", msg |-> "UnexpectedMessage"]

\* what a QueryStream yields for the messages its channel delivers
Yield(msgs) == [i \in 1..Len(msgs) |-> QueryStreamPoll(msgs[i])]

SimpleQueryStreamKinds ==
  {"CommandComplete", "RowDescription", "DataRow", "ReadyForQuery",
   "EmptyQueryResponse", "ErrorResponse"}

\* SimpleQueryStream::poll_next on a message of the response channel
SimpleQueryStreamPoll(m) ==
  IF m \in SimpleQueryStreamKinds THEN ItemOk(m)
  ELSE ItemErr("UnexpectedMessage")

\* poll_next of either stream on what the channel hands over
StreamPoll(kind, ev) ==
  IF ~ev.ok THEN PollErr(ev.v)
  ELSE IF kind = "query" THEN QueryStreamPoll(ev.v)
  ELSE SimpleQueryStreamPoll(ev.v)

\* the consumer polls a stream whose channel has something to hand over
PollNext(kind) ==
  /\ stream.kind = kind /\ ~stream.ended /\ stream.chan # <<>>
  /\ LET ev == Head(stream.chan)
         r == StreamPoll(kind, ev)
     IN stream' = [stream EXCEPT !.chan = Tail(@),
                                 !.read = Append(@, ev),
                                 !.items = IF r = EndOfStream THEN @ ELSE Append(@, r),
                                 !.ended = (r = EndOfStream)]
  /\ last' = Last("poll_next", TRUE)
  /\ UNCHANGED <<client, strong, connOpen, pending, stmts, portals, pc, loc, sent,
                 backend, queue, rx, cur, skipping, calls, log, gone, codec>>

QueryStreamPollNext == PollNext("query")
SimpleQueryStreamPollNext == PollNext("simple")

\* ------------------------------------------------------------------- spec
CallsBy(T) ==
  \/ \E t \in T, n \in Inputs : Prepare(t, n, <<>>)
  \/ \E t \in T, s \in DOMAIN stmts, n \in Inputs : Bind(t, s, n, <<>>)
  \/ \E t \in T, tag \in {"S", "P"}, n \in Inputs : Describe(t, tag, n)
  \/ \E t \in T, p \in DOMAIN portals : Execute(t, p)
  \/ \E t \in T : SyncBuf(t)
  \/ \E t \in T : SyncSend(t)
  \/ \E t \in T, q \in {"q", NulName} : SimpleQueryBuf(t, q)
  \/ \E t \in T : SimpleQuerySend(t)
  \/ \E t \in T, s \in DOMAIN stmts : CloneStatement(t, s)
  \/ \E t \in T, p \in DOMAIN portals : ClonePortal(t, p)
  \/ \E t \in T, s \in DOMAIN stmts : DropStatement(t, s)
  \/ \E t \in T : StmtDropWrite(t)
  \/ \E t \in T : StmtDropSend(t)
  \/ \E t \in T, p \in DOMAIN portals : DropPortal(t, p)
  \/ \E t \in T : PortalDropSend(t)
  \/ DropClient
  \/ CloseConn

Calls == CallsBy(Threads)

Next == Calls

\* two callers on one client
Spec == Init /\ [][Next]_vars

\* one caller whose client and connection stay up, with the server
\* answering its batches
NextWire ==
  \/ \E n \in Names : Prepare("A", n, <<>>)
  \/ \E s \in DOMAIN stmts, n \in Names : Bind("A", s, n, <<>>)
  \/ \E tag \in {"S", "P"}, n \in Names : Describe("A", tag, n)
  \/ \E p \in DOMAIN portals : Execute("A", p)
  \/ SyncBuf("A")
  \/ SyncSend("A")
  \/ SimpleQueryBuf("A", "q")
  \/ SimpleQuerySend("A")
  \/ \E s \in DOMAIN stmts : DropStatement("A", s)
  \/ StmtDropWrite("A")
  \/ StmtDropSend("A")
  \/ \E p \in DOMAIN portals : DropPortal("A", p)
  \/ PortalDropSend("A")
  \/ \E c \in 1..Len(rx) : DropStream(c)
  \/ \E k \in 0..MaxCalls, rows \in BOOLEAN : Respond(k, rows)

SpecWire == InitWire /\ [][NextWire]_vars

\* the response channels a polled stream can sit on: up to MaxLen messages
\* and errors; nothing follows Closed
RECURSIVE Channels(_)
Channels(n) ==
  IF n = 0 THEN {<<>>}
  ELSE LET shorter == Channels(n - 1) IN
       shorter \cup
       {Append(c, e) : c \in {x \in shorter : Len(x) = n - 1 /\
                                 \A i \in 1..Len(x) : x[i] # Fail("Closed")},
                       e \in Events}

\* the lists of up to n elements of S
RECURSIVE Lists(_, _)
Lists(S, n) ==
  IF n = 0 THEN {<<>>}
  ELSE LET shorter == Lists(S, n - 1) IN
       shorter \cup {Append(l, x) : l \in {y \in shorter : Len(y) = n - 1}, x \in S}

\* parameter type OIDs (int4), and parameters: None or Some(bytes)
TypeLists == Lists({"int4"}, MaxParams)
ParamLists == Lists({"None", "Some"}, MaxParams)

NextBind ==
  \/ \E n \in Names, types \in TypeLists :
       calls < MaxBindCalls /\ Prepare("A", n, types)
  \/ \E s \in DOMAIN stmts, n \in Names, params \in ParamLists :
       calls < MaxBindCalls /\ Bind("A", s, n, params)
  \/ \E s \in DOMAIN stmts : calls < MaxBindCalls /\ CloneStatement("A", s)
  \/ calls < MaxBindCalls /\ SyncBuf("A")
  \/ SyncSend("A")

\* one caller preparing statements with any parameter types and binding
\* them with any parameters
SpecBind == Init /\ [][NextBind]_vars

\* ------------------------------------------------------------ Bind frame
\* a parameter of bind: Option<BytesMut>
None == [some |-> FALSE, bytes |-> <<>>]
Some(bytes) == [some |-> TRUE, bytes |-> bytes]

ByteStrings == Lists({0, 255}, MaxBytes)
Params == {None} \cup {Some(b) : b \in ByteStrings}

\* what the encoder puts into the buffer: the message tag, NUL-terminated
\* strings, big-endian integers and bytes
Tag(c) == [f |-> "tag", v |-> c]
CStr(s) == [f |-> "cstr", v |-> s]
I16(v) == [f |-> "i16", v |-> v]
I32(v) == [f |-> "i32", v |-> v]
U8(v) == [f |-> "u8", v |-> v]

\* buf.put(bytes)
Put(buf, bytes) == buf \o [i \in 1..Len(bytes) |-> U8(bytes[i])]

\* a serializer that writes None as a value of no bytes
BindParamNullAsEmpty(param, buf) == [isnull |-> FALSE, buf |-> Put(buf, param.bytes)]

\* the serializer closure encode_bind passes to frontend::bind
BindParam(param, buf) ==
  IF param.some THEN [isnull |-> FALSE, buf |-> Put(buf, param.bytes)]
  ELSE [isnull |-> TRUE, buf |-> buf]

\* one value: written is what the serializer did on the bytes behind the
\* length placeholder; the placeholder is then set to the number of bytes
\* written, or to -1 for NULL
WriteNullable(written, buf) ==
  LET size == IF written.isnull THEN -1 ELSE Len(written.buf)
  IN Append(buf, I32(size)) \o written.buf

\* a 16-bit count followed by the items
WriteCounted(items, buf) ==
  Append(buf, I16(Len(items))) \o [i \in 1..Len(items) |-> I16(items[i])]

\* frontend::bind; values holds, for each value, what the serializer wrote
FrontendBind(portal, statement, formats, values, result_formats, buf) ==
  IF ~IsCStr(portal)
  THEN [ok |-> FALSE, err |-> "Serialization", buf |-> Append(buf, Tag("B"))]
  ELSE IF ~IsCStr(statement)
  THEN [ok |-> FALSE, err |-> "Serialization",
        buf |-> buf \o <<Tag("B"), CStr(portal)>>]
  ELSE LET b0 == buf \o <<Tag("B"), CStr(portal), CStr(statement)>>
           b1 == Append(WriteCounted(formats, b0), I16(Len(values)))
           go[i \in 0..Len(values)] ==
             IF i = 0 THEN b1 ELSE WriteNullable(values[i], go[i - 1])
       IN [ok |-> TRUE, err |-> "-",
           buf |-> WriteCounted(result_formats, go[Len(values)])]

\* encode_bind, byte by byte: Some(1) is the one parameter format and the
\* one result format
EncodeBindBytes(statement, params, portal, buf) ==
  LET written == [i \in 1..Len(params) |-> BindParam(params[i], <<>>)]
      r == FrontendBind(portal, statement.name, <<1>>, written, <<1>>, buf)
  IN IF r.ok THEN [ok |-> TRUE, err |-> "-", buf |-> r.buf]
     ELSE IF r.err = "Serialization" THEN [ok |-> FALSE, err |-> "Encode", buf |-> r.buf]
     ELSE [ok |-> FALSE, err |-> "UnexpectedMessage", buf |-> r.buf]

\* encode_bind is called and returns
EncodeBindCall ==
  /\ codec.op = "encode_bind" /\ ~codec.done
  /\ LET a == codec.args
         r == EncodeBindBytes(a.statement, a.params, a.portal, a.buf)
     IN /\ codec' = [codec EXCEPT !.done = TRUE, !.out = r]
        /\ last' = Last("encode_bind", r.ok)
  /\ UNCHANGED <<client, strong, connOpen, pending, stmts, portals, pc, loc, sent,
                 backend, queue, rx, cur, skipping, calls, log, gone, stream>>

\* the calls of encode_bind: a statement of any name, up to MaxParams
\* parameters, any portal name, a buffer empty or not
InitEncode ==
  /\ Start /\ backend = FALSE /\ stream = NoStream
  /\ codec \in {[op |-> "encode_bind",
                 args |-> [statement |-> StatementNew(s, <<>>), params |-> ps,
                           portal |-> p, buf |-> b],
                 done |-> FALSE, out |-> <<>>] :
                s \in {"", "a"}, ps \in Lists(Params, MaxParams),
                p \in {"", "a", NulName}, b \in {<<>>, <<Tag("S")>>}}

NextEncode == EncodeBindCall

SpecEncode == InitEncode /\ [][NextEncode]_vars

\* ------------------------------------------------------------------- Row
\* DataRowBody: the advertised column count and the payload behind it
DataRowBody(len, storage) == [len |-> len, storage |-> storage]
\* DataRowBody::buffer
Buffer(body) == body.storage

\* a big-endian i32 at offset pos of the payload
ReadI32(storage, pos) ==
  LET b1 == storage[pos + 1]
      hi == IF b1 >= 128 THEN b1 - 256 ELSE b1
  IN hi * 16777216 + storage[pos + 2] * 65536 + storage[pos + 3] * 256
     + storage[pos + 4]

\* a half-open byte range of the payload, as std::ops::Range<usize>
Range(start, end) == [start |-> start, end |-> end]

\* DataRowBody::ranges collected into a Result<Vec<_>>: one Option<Range>
\* per advertised column, or the first error; bytes left over behind the
\* last column, a length cut short, a length other than -1 below zero and a
\* value reaching past the end are errors
RECURSIVE Ranges(_, _, _)
Ranges(storage, pos, remaining) ==
  IF remaining = 0
  THEN [ok |-> pos = Len(storage), ranges |-> <<>>]
  ELSE IF Len(storage) - pos < 4 THEN [ok |-> FALSE, ranges |-> <<>>]
  ELSE LET len == ReadI32(storage, pos) IN
       IF len = -1
       THEN LET r == Ranges(storage, pos + 4, remaining - 1)
            IN [r EXCEPT !.ranges = <<None>> \o @]
       ELSE IF len < 0 \/ Len(storage) - (pos + 4) < len
       THEN [ok |-> FALSE, ranges |-> <<>>]
       ELSE LET r == Ranges(storage, pos + 4 + len, remaining - 1)
            IN [r EXCEPT !.ranges = <<Some(Range(pos + 4, pos + 4 + len))>> \o @]

\* Row::new
RowNew(body) ==
  LET r == Ranges(Buffer(body), 0, body.len)
  IN IF r.ok THEN [ok |-> TRUE, err |-> "-", row |-> [body |-> body, ranges |-> r.ranges]]
     ELSE [ok |-> FALSE, err |-> "Parse", row |-> <<>>]

\* Row::len, Row::is_empty
RowLen(row) == Len(row.ranges)
RowIsEmpty(row) == RowLen(row) = 0

\* a get that takes the range for one counted from 1
RowGetFromOne(row, idx) ==
  LET r == row.ranges[idx + 1]
  IN IF r = None THEN None
     ELSE Some(SubSeq(Buffer(row.body), r.bytes.start, r.bytes.end - 1))

\* Row::get, for idx < len
RowGet(row, idx) ==
  LET r == row.ranges[idx + 1]
  IN IF r = None THEN None
     ELSE Some(SubSeq(Buffer(row.body), r.bytes.start + 1, r.bytes.end))

\* Row::new is called and returns
RowNewCall ==
  /\ codec.op = "row_new" /\ ~codec.done
  /\ LET r == RowNew(codec.args)
     IN /\ codec' = [codec EXCEPT !.done = TRUE,
                       !.out = [ok |-> r.ok, err |-> r.err, row |-> r.row,
                                read |-> FALSE, len |-> 0, is_empty |-> FALSE,
                                get |-> <<>>]]
        /\ last' = Last("row_new", r.ok)
  /\ UNCHANGED <<client, strong, connOpen, pending, stmts, portals, pc, loc, sent,
                 backend, queue, rx, cur, skipping, calls, log, gone, stream>>

\* the caller reads the Row: len, is_empty and get of every column
RowRead ==
  /\ codec.op = "row_new" /\ codec.done /\ codec.out.ok /\ ~codec.out.read
  /\ LET row == codec.out.row
     IN codec' = [codec EXCEPT !.out.read = TRUE,
                    !.out.len = RowLen(row),
                    !.out.is_empty = RowIsEmpty(row),
                    !.out.get = [i \in 1..RowLen(row) |-> RowGet(row, i - 1)]]
  /\ last' = Last("row_read", TRUE)
  /\ UNCHANGED <<client, strong, connOpen, pending, stmts, portals, pc, loc, sent,
                 backend, queue, rx, cur, skipping, calls, log, gone, stream>>

\* the DataRow bodies a backend message can carry: any payload of up to
\* MaxStorage bytes behind any column count up to MaxCols
InitRow ==
  /\ Start /\ backend = FALSE /\ stream = NoStream
  /\ codec \in {[op |-> "row_new", args |-> DataRowBody(n, s), done |-> FALSE,
                 out |-> <<>>] :
                n \in 0..MaxCols, s \in Lists({0, 1, 255}, MaxStorage)}

NextRow == RowNewCall \/ RowRead

SpecRow == InitRow /\ [][NextRow]_vars

InitStream ==
  /\ Start /\ backend = FALSE
  /\ stream \in {[kind |-> k, chan |-> c, read |-> <<>>, items |-> <<>>,
                   ended |-> FALSE] : k \in {"query", "simple"}, c \in Channels(MaxLen)}
  /\ codec = NoCodec

NextStream == QueryStreamPollNext \/ SimpleQueryStreamPollNext

\* a QueryStream or a SimpleQueryStream polled to the end of what its
\* channel holds
SpecStream == InitStream /\ [][NextStream]_vars

\* ------------------------------------------------------------- properties
CountIn(seq, x) == Cardinality({i \in 1..Len(seq) : seq[i] = x})

\* the Close frames handed to the connection so far, in wire order
RECURSIVE WireFrom(_)
WireFrom(i) == IF i > Len(sent) THEN <<>> ELSE sent[i].closes \o WireFrom(i + 1)
WireCloses == WireFrom(1)

\* how many Close frames exist for handle h: buffered, frozen or on the wire
CloseCount(h) ==
  CountIn(Closes(pending), h) + CountIn(Closes(loc["A"].batch), h)
  + CountIn(Closes(loc["B"].batch), h) + CountIn(WireCloses, h)

Kinds(frames) == [i \in 1..Len(frames) |-> frames[i].t]

\* C1: the batch a sync() hands to the connection is the frames appended
\* to the pending buffer since the previous split, in the order they were
\* appended, followed by exactly one Sync frame.
C1_SyncBatch ==
  [][\A t \in Threads :
       /\ (pc[t] = "idle" /\ pc'[t] = "sync_send") =>
            /\ loc'[t].batch = log \o <<SyncFrame>>
            /\ \A i \in 1..Len(log) : log[i].t \notin {"Sync", "Query"}
       /\ (pc[t] = "sync_send" /\ pc'[t] = "idle" /\ connOpen) =>
            /\ Len(sent') = Len(sent) + 1
            /\ sent'[Len(sent')].by = "sync"
            /\ sent'[Len(sent')].closes = Closes(loc[t].batch)
            /\ backend => queue' = Append(queue, loc[t].batch)]_vars

\* a sync has frozen a batch holding a Parse, the Close of a dropped
\* statement and the Sync
C1_Witness ==
  \E t \in Threads :
    /\ pc[t] = "sync_send"
    /\ Kinds(loc[t].batch) = <<"Parse", "Close", "Sync">>

\* C2: the batch simple_query dispatches is the single Query frame and the
\* pending buffer is the same after the call as before it.
C2_QueryAlone ==
  [][\A t \in Threads :
       (pc[t] = "idle" /\ pc'[t] = "sq_send") =>
         (loc'[t].batch = <<QueryFrame>> /\ pending' = pending)]_vars

\* C3: while the connection is open, every handle whose destructor has run
\* with the client alive has its Close frame on the wire no later than the
\* batch of the next sync() called after the drop.
C3_CloseByNextSync ==
  connOpen => \A i \in 1..Len(sent) : sent[i].by = "sync" => sent[i].owed = {}

\* C4: a successful prepare, bind, describe or execute appends exactly one
\* frame of its kind to the end of the pending buffer, hands nothing to the
\* connection and returns at once (with the new handle for prepare, bind).
OpKind(op) ==
  CASE op = "prepare" -> "Parse" [] op = "bind" -> "Bind"
    [] op = "describe" -> "Describe" [] op = "execute" -> "Execute"

C4_BufferOnly ==
  [][(last'.op \in {"prepare", "bind", "describe", "execute"} /\ last'.ok) =>
       LET f == pending'[Len(pending')] IN
       /\ Len(pending') = Len(pending) + 1
       /\ SubSeq(pending', 1, Len(pending)) = pending
       /\ f.t = OpKind(last'.op)
       /\ (last'.op = "describe" => f.tag \in {"S", "P"})
       /\ sent' = sent /\ queue' = queue /\ pc' = pc
       /\ (last'.op = "prepare" =>
             /\ Len(stmts') = Len(stmts) + 1
             /\ stmts'[Len(stmts')].name = f.name
             /\ stmts'[Len(stmts')].refs = 1)
       /\ (last'.op = "bind" =>
             /\ Len(portals') = Len(portals) + 1
             /\ portals'[Len(portals')].name = f.name
             /\ stmts[portals'[Len(portals')].stmt].name = f.stmt
             /\ portals'[Len(portals')].refs = 1)]_vars

\* bind has returned a Portal with Parse and Bind buffered and nothing sent
C4_Witness ==
  /\ last.op = "bind" /\ last.ok
  /\ Kinds(pending) = <<"Parse", "Bind">>
  /\ sent = <<>> /\ Len(portals) = 1

\* the completions the server owes to the buffered commands of a batch
Completion(f) ==
  CASE f.t = "Parse" -> <<"ParseComplete">>
    [] f.t = "Bind" -> <<"BindComplete">>
    [] f.t = "Execute" -> <<"CommandComplete">>
    [] OTHER -> <<>>

RECURSIVE Expected(_)
Expected(frames) ==
  IF frames = <<>> THEN <<>>
  ELSE Completion(Head(frames)) \o Expected(Tail(frames))

IsCompletion(m) == m \in {"ParseComplete", "BindComplete", "CommandComplete"}
IsReady(m) == m = "ReadyForQuery"

\* C5: the responses to a sync batch reach the channel of that sync (when
\* its stream has not been dropped) and no
\* other, in the order of the buffered commands (ParseComplete for Parse,
\* BindComplete for Bind, CommandComplete for Execute), ending with the one
\* ReadyForQuery of its Sync; when the batch holds only such commands and
\* Describe (no Close of a dropped handle), the stream yields every message
\* as an Ok item. A batch Parse, Bind, Execute, Sync without rows yields
\* exactly ParseComplete, BindComplete, CommandComplete, ReadyForQuery.
C5_StreamOrder ==
  /\ [](cur = Len(sent) - Len(queue) + 1)
  /\ [][(/\ last'.op = "respond" /\ cur <= Len(sent) /\ sent[cur].by = "sync"
          /\ cur \notin gone) =>
          LET batch == Head(queue)
              got == rx'[cur]
          IN /\ rx[cur] = <<>>
             /\ cur' = cur + 1
             /\ Len(got) > 0 /\ IsReady(got[Len(got)])
             /\ Len(SelectSeq(got, IsReady)) = 1
             /\ \A j \in 1..Len(rx) : j # cur => rx'[j] = rx[j]
             /\ Closes(batch) = <<>> =>
                  \A i \in 1..Len(got) : Yield(got)[i] = [item |-> "Ok", msg |-> got[i]]
             /\ (last'.ok /\ ~skipping) =>
                  SelectSeq(got, IsCompletion) = Expected(batch)
             /\ (last'.ok /\ ~skipping /\ "DataRow" \notin {got[i] : i \in 1..Len(got)}
                 /\ Kinds(batch) = <<"Parse", "Bind", "Execute", "Sync">>) =>
                  Yield(got) = [i \in 1..4 |->
                    [item |-> "Ok",
                     msg |-> <<"ParseComplete", "BindComplete",
                               "CommandComplete", "ReadyForQuery">>[i]]]]_vars

\* the channel of a sync whose batch was Parse, Bind, Execute, Sync holds
\* the four completions
C5_Witness ==
  \E c \in 1..Len(rx) :
    /\ sent[c].by = "sync"
    /\ rx[c] = <<"ParseComplete", "BindComplete", "CommandComplete", "ReadyForQuery">>

\* C6: sync leaves the pending buffer empty: its locked section takes every
\* buffered frame, and its send changes nothing in the buffer whether it
\* succeeds or fails.
C6_EmptyAfterSync ==
  /\ [](last.op = "sync_buf" => pending = <<>>)
  /\ [][last'.op = "sync" => pending' = pending]_vars

\* a sync whose send failed has returned, and the buffer is empty
C6_Witness ==
  last.op = "sync" /\ ~last.ok /\ pending = <<>> /\ stmts # <<>>

\* C7: of two concurrent sync() calls, the one that appended its Sync first
\* is the one whose batch reaches the connection first.
C7_FirstAppendShipsFirst ==
  \A i \in 1..Len(sent) : sent[i].late = {}

\* C8: a handle's Close frame is written only once its last owner is gone,
\* and at most once; dropping a clone while another owner is alive changes
\* neither the buffer nor the wire.
C8_CloseOnce ==
  /\ [](/\ \A s \in DOMAIN stmts :
              /\ CloseCount(<<"S", s>>) <= 1
              /\ CloseCount(<<"S", s>>) > 0 => StmtArc(stmts, portals, s) = 0
        /\ \A p \in DOMAIN portals :
              /\ CloseCount(<<"P", p>>) <= 1
              /\ CloseCount(<<"P", p>>) > 0 => portals[p].refs = 0)
  /\ [][/\ (last'.op = "drop_stmt" /\ \E s \in DOMAIN stmts :
              stmts'[s].refs < stmts[s].refs /\ StmtArc(stmts', portals', s) > 0)
            => UNCHANGED <<pending, sent, pc, loc>>
        /\ (last'.op = "drop_portal" /\ \E p \in DOMAIN portals :
              portals'[p].refs < portals[p].refs /\ portals'[p].refs > 0)
            => UNCHANGED <<pending, sent, pc, loc>>]_vars

\* a Statement clone was dropped while a Portal still holds the statement:
\* no Close exists
C8_Witness ==
  /\ last.op = "drop_stmt"
  /\ Len(stmts) = 1 /\ stmts[1].refs = 0
  /\ \E p \in DOMAIN portals : portals[p].holds /\ portals[p].stmt = 1
  /\ CloseCount(<<"S", 1>>) = 0

\* C9: on the wire the Close('S') of a statement never comes before the
\* Close('P') of a portal bound to it, and no Close('S') exists while a
\* portal still holds the statement.
C9_PortalBeforeStatement ==
  \A p \in DOMAIN portals :
    LET s == portals[p].stmt IN
    /\ \A i, j \in 1..Len(WireCloses) :
         (WireCloses[i] = <<"S", s>> /\ WireCloses[j] = <<"P", p>>) => j < i
    /\ CloseCount(<<"S", s>>) > 0 => ~portals[p].holds

\* the last owner of a portal was also the last holder of its statement:
\* Close('P') and then Close('S') are on the wire
C9_Witness ==
  \E p \in DOMAIN portals : \E i, j \in 1..Len(WireCloses) :
    /\ i < j
    /\ WireCloses[i] = <<"P", p>>
    /\ WireCloses[j] = <<"S", portals[p].stmt>>

\* C10: handles do not keep the client alive (once the user has released
\* the Client and no destructor is running, its strong count is 0), and a
\* handle dropped after that appends nothing and sends nothing.
C10_WeakClient ==
  /\ []((~client /\ \A t \in Threads : pc[t] = "idle") => strong = 0)
  /\ [][(last'.op \in {"drop_stmt", "drop_portal"} /\ strong = 0) =>
          /\ pending' = pending /\ sent' = sent /\ queue' = queue
          /\ pc' = pc /\ strong' = 0]_vars

\* the last owner of a statement was dropped after the client was released
C10_Witness ==
  /\ last.op = "drop_stmt" /\ ~client /\ strong = 0
  /\ \E s \in DOMAIN stmts : stmts[s].done = "dead"
  /\ pending # <<>> /\ sent = <<>>

\* the item a stream yielded for the i-th thing its channel handed over
ItemAt(i) == stream.items[i]
Handed(i) == stream.read[i]

\* C11: a QueryStream yields a message as a data item exactly when its kind
\* is DataRow, ParseComplete, BindComplete, ParameterDescription,
\* RowDescription, NoData, EmptyQueryResponse, CommandComplete,
\* PortalSuspended, ReadyForQuery or ErrorResponse, and as an
\* UnexpectedMessage error item otherwise; no message ends the stream, so
\* ErrorResponse is a data item after which the stream goes on.
C11_QueryWhitelist ==
  stream.kind = "query" =>
    /\ \A i \in 1..Len(stream.items) :
         Handed(i).ok =>
           /\ (ItemAt(i) = ItemOk(Handed(i).v)) <=>
                Handed(i).v \in {"DataRow", "ParseComplete", "BindComplete",
                                 "ParameterDescription", "RowDescription", "NoData",
                                 "EmptyQueryResponse", "CommandComplete",
                                 "PortalSuspended", "ReadyForQuery", "ErrorResponse"}
           /\ ItemAt(i) \in {ItemOk(Handed(i).v), ItemErr("UnexpectedMessage")}
    /\ \A i \in 1..Len(stream.read) :
         Handed(i).ok => (i <= Len(stream.items) /\ (stream.ended => i < Len(stream.read)))

\* an ErrorResponse was yielded as data and the stream went on to reject a
\* CloseComplete
C11_Witness ==
  /\ stream.kind = "query"
  /\ stream.read = <<Msg("ErrorResponse"), Msg("CloseComplete")>>
  /\ stream.items = <<ItemOk("ErrorResponse"), ItemErr("UnexpectedMessage")>>

\* C12: a SimpleQueryStream yields a message as a data item exactly when its
\* kind is CommandComplete, RowDescription, DataRow, ReadyForQuery,
\* EmptyQueryResponse or ErrorResponse, and as an UnexpectedMessage error
\* item otherwise, the extended-query kinds included.
C12_SimpleWhitelist ==
  stream.kind = "simple" =>
    /\ \A i \in 1..Len(stream.items) :
         Handed(i).ok =>
           /\ (ItemAt(i) = ItemOk(Handed(i).v)) <=>
                Handed(i).v \in {"CommandComplete", "RowDescription", "DataRow",
                                 "ReadyForQuery", "EmptyQueryResponse", "ErrorResponse"}
           /\ ItemAt(i) \in {ItemOk(Handed(i).v), ItemErr("UnexpectedMessage")}
    /\ \A i \in 1..Len(stream.items) :
         (Handed(i).ok /\ Handed(i).v \in {"ParseComplete", "BindComplete",
              "ParameterDescription", "NoData", "PortalSuspended"}) =>
           ItemAt(i) = ItemErr("UnexpectedMessage")

\* a SimpleQueryStream rejected a ParseComplete and then yielded a DataRow
C12_Witness ==
  /\ stream.kind = "simple"
  /\ stream.read = <<Msg("ParseComplete"), Msg("DataRow")>>
  /\ stream.items = <<ItemErr("UnexpectedMessage"), ItemOk("DataRow")>>

\* C13: for both streams, Closed on the response channel ends the stream
\* without an item; any other error of the channel is yielded as one error
\* item and the stream goes on.
C13_ClosedEndsStream ==
  stream.kind \in {"query", "simple"} =>
    /\ \A i \in 1..Len(stream.read) :
         ~Handed(i).ok =>
           IF Handed(i).v = "Closed"
           THEN stream.ended /\ i = Len(stream.read) /\ Len(stream.items) = i - 1
           ELSE /\ i <= Len(stream.items) /\ ItemAt(i) = ItemErr(Handed(i).v)
                /\ (stream.ended => i < Len(stream.read))
    /\ stream.ended => Handed(Len(stream.read)) = Fail("Closed")
    /\ Len(stream.items) = Len(stream.read) - (IF stream.ended THEN 1 ELSE 0)

\* a stream yielded an error item for a transport error and then ended on
\* Closed
C13_Witness ==
  /\ stream.read = <<Fail("Io"), Fail("Closed")>>
  /\ stream.items = <<ItemErr("Io")>>
  /\ stream.ended

\* C14: when the closure given to raw_buf or with_buf fails (a Parse, Bind,
\* Describe, Execute or Query frame that cannot be encoded), the pending
\* buffer is after the call what it was before: no partial frame, earlier
\* frames kept; and nothing is sent.
C14_FailureRestores ==
  [][(/\ last'.op \in {"prepare", "bind", "describe", "execute", "simple_query_buf"}
      /\ ~last'.ok) =>
       /\ pending' = pending
       /\ \A i \in 1..Len(pending') : pending'[i] # PartialFrame
       /\ sent' = sent /\ portals' = portals
       /\ Len(stmts') = Len(stmts)]_vars

\* a bind whose portal name cannot be encoded has failed and the Parse
\* buffered before it is all the buffer holds
C14_Witness ==
  /\ last.op = "bind" /\ ~last.ok
  /\ Kinds(pending) = <<"Parse">>
  /\ portals = <<>>

\* C15: bind does not compare the number of parameters with the statement's
\* param_types: with names that can be encoded it succeeds for every
\* parameter list, appends the Bind frame carrying those parameters and
\* returns a Portal on the statement.
C15_BindAnyCount ==
  [][last'.op = "bind" =>
       LET f == pending'[Len(pending')]
           p == portals'[Len(portals')]
       IN /\ last'.ok
          /\ Len(pending') = Len(pending) + 1
          /\ f.t = "Bind" /\ f.params \in ParamLists
          /\ f.stmt = stmts[p.stmt].name /\ f.name = p.name
          /\ Len(portals') = Len(portals) + 1
          /\ p.refs = 1 /\ p.holds
          /\ \A l \in ParamLists :
               EncodeBind(stmts[p.stmt], l, p.name, pending) =
                 Res(TRUE, Append(pending, BindFrame(p.name, stmts[p.stmt].name, l)), <<>>)]_vars

\* a statement declaring one parameter type was bound with two parameters
C15_Witness ==
  /\ last.op = "bind" /\ last.ok
  /\ \E p \in DOMAIN portals :
       /\ Len(stmts[portals[p].stmt].param_types) = 1
       /\ \E i \in 1..Len(pending) :
            /\ pending[i].t = "Bind" /\ pending[i].name = portals[p].name
            /\ Len(pending[i].params) = 2

\* C16: a sync() called with nothing buffered dispatches a batch that is the
\* single Sync frame, and its stream receives and yields exactly one
\* message, ReadyForQuery; so do two such calls in a row.
C16_BareSync ==
  [][/\ \A t \in Threads :
          (pc[t] = "idle" /\ pc'[t] = "sync_send" /\ pending = <<>>) =>
            loc'[t].batch = <<SyncFrame>>
     /\ (/\ last'.op = "respond" /\ cur <= Len(sent) /\ sent[cur].by = "sync"
         /\ cur \notin gone /\ Head(queue) = <<SyncFrame>>) =>
          /\ rx'[cur] = <<"ReadyForQuery">>
          /\ Yield(rx'[cur]) = <<ItemOk("ReadyForQuery")>>
          /\ cur' = cur + 1]_vars

\* two syncs were the only calls made, and each of their streams holds
\* exactly ReadyForQuery
C16_Witness ==
  /\ calls = 2 /\ Len(sent) = 2
  /\ sent[1].by = "sync" /\ sent[2].by = "sync"
  /\ rx = <<<<"ReadyForQuery">>, <<"ReadyForQuery">>>>

\* C17: dropping a QueryStream before its ReadyForQuery leaves the pipeline
\* aligned: the answers to the abandoned batch are discarded up to its
\* ReadyForQuery, and the stream of a later sync receives exactly the
\* answers to its own batch.
C17_NoStaleMessages ==
  /\ [](cur = Len(sent) - Len(queue) + 1)
  /\ [][(last'.op = "respond" /\ cur <= Len(sent)) =>
          IF cur \in gone
          THEN rx' = rx /\ cur' = cur + 1
          ELSE (sent[cur].by = "sync" /\ gone # {}) =>
                 /\ rx[cur] = <<>>
                 /\ \E k \in 0..Len(Head(queue)), rows \in BOOLEAN :
                      rx'[cur] = Serve(Head(queue), 1, k, rows, skipping).out
                 /\ \A j \in 1..Len(rx) : j # cur => rx'[j] = rx[j]]_vars

\* the stream of the first sync was dropped unanswered; its batch has been
\* answered since, and the stream of the second sync holds its own answers
C17_Witness ==
  /\ Len(sent) = 2 /\ sent[1].by = "sync" /\ sent[2].by = "sync"
  /\ gone = {1} /\ cur = 3
  /\ rx = <<<<>>, <<"BindComplete", "ReadyForQuery">>>>

\* C18: when the destructor of a Statement writes with the client alive: if
\* the pending buffer is empty, the batch it takes out is exactly
\* Close('S', name), Sync, the buffer stays empty and the batch is handed to
\* the connection; if the buffer is not empty, exactly Close('S', name) is
\* appended behind the buffered frames, without Sync, and nothing is sent.
C18_StatementDropShape ==
  [][\A t \in Threads :
       LET s == loc[t].h
           close == CloseFrame("S", stmts[s].name, s)
       IN /\ (pc[t] = "sdrop_write" /\ pc'[t] # "sdrop_write") =>
               IF pending = <<>>
               THEN /\ pc'[t] = "sdrop_send"
                    /\ loc'[t].batch = <<close, SyncFrame>>
                    /\ pending' = <<>> /\ sent' = sent
               ELSE /\ pc'[t] = "idle"
                    /\ pending' = Append(pending, close)
                    /\ sent' = sent
          /\ (pc[t] = "sdrop_send" /\ pc'[t] # "sdrop_send" /\ connOpen) =>
               /\ Len(sent') = Len(sent) + 1
               /\ sent'[Len(sent')].closes = <<<<"S", s>>>>
               /\ pending' = pending]_vars

\* C19: when the last owner of a Portal is dropped with the client alive and
\* the pending buffer is not empty, only Close('P', name) is appended, with
\* no Sync and no dispatch; a Close('P'), Sync batch is taken out only when
\* the buffer is empty.
C19_PortalDropShape ==
  [][\A p \in DOMAIN portals :
       (/\ last'.op = "drop_portal"
        /\ portals[p].refs = 1 /\ portals'[p].refs = 0 /\ strong > 0) =>
         LET close == CloseFrame("P", portals[p].name, p) IN
         IF pending = <<>>
         THEN /\ pending' = <<>>
              /\ \E t \in Threads :
                   pc'[t] = "pdrop_send" /\ loc'[t].batch = <<close, SyncFrame>>
         ELSE /\ pending' = Append(pending, close)
              /\ pc' = pc /\ sent' = sent]_vars

\* C20: a batch the destructor of a Statement takes out of the buffer is
\* exactly Close('S', name), Sync, whatever the other caller does between
\* the emptiness check and the write.
C20_DropBatchAtomic ==
  [][\A t \in Threads :
       (pc[t] = "sdrop_write" /\ pc'[t] = "sdrop_send") =>
         loc'[t].batch =
           <<CloseFrame("S", stmts[loc[t].h].name, loc[t].h), SyncFrame>>]_vars

\* the frames that make the server answer ReadyForQuery
EndsPipeline(f) == f.t \in {"Sync", "Query"}

\* the callers holding a frozen batch on its way to send
Sending == {t \in Threads : pc[t] \in {"sync_send", "sq_send", "sdrop_send", "pdrop_send"}}

\* C21: every batch an operation (sync, simple_query, Statement drop, Portal
\* drop) hands to the connection holds exactly one frame that makes the
\* server answer ReadyForQuery (Sync or Query), and it is the last frame of
\* the batch; the pending buffer never holds a Sync or a Query frame.
C21_OneReadyFrame ==
  /\ \A i \in 1..Len(pending) : ~EndsPipeline(pending[i])
  /\ \A t \in Sending :
       LET b == loc[t].batch IN
       /\ b # <<>>
       /\ EndsPipeline(b[Len(b)])
       /\ \A i \in 1..(Len(b) - 1) : ~EndsPipeline(b[i])
       /\ (pc[t] = "sq_send") = (b[Len(b)].t = "Query")

\* one caller holds the batch of a sync with two commands before its Sync
\* while the other holds the batch of a simple_query that found a command
\* buffered
C21_Witness ==
  /\ pc["A"] = "sync_send" /\ Len(loc["A"].batch) = 3
  /\ pc["B"] = "sq_send" /\ Len(loc["B"].batch) = 2

\* frontend::close(tag, name, buf).unwrap() in the two destructors: the
\* encoder accepts the name, so that the unwrap does not panic
CloseEncodes(tag, name) == Write(<<>>, name, CloseFrame(tag, name, 0)).ok

\* C22: a handle dropped while the client is alive and the connection no
\* longer accepts requests (send fails with Closed): the destructor runs to
\* its end, the failure of send is not surfaced, the unwrap of the Close
\* encoder cannot panic, nothing is handed to the connection, and the
\* pending buffer holds whole frames only.
C22_DropOnClosedConn ==
  /\ [](\A i \in 1..Len(pending) : pending[i] # PartialFrame)
  /\ [](\A s \in DOMAIN stmts : CloseEncodes("S", stmts[s].name))
  /\ [](\A p \in DOMAIN portals : CloseEncodes("P", portals[p].name))
  /\ [][~connOpen =>
          \A t \in Threads :
            LET h == loc[t].h IN
            /\ (pc[t] = "sdrop_write" /\ pc'[t] # "sdrop_write") =>
                 /\ last'.ok /\ sent' = sent
                 /\ \/ pc'[t] = "sdrop_send" /\ pending' = <<>>
                    \/ /\ pc'[t] = "idle" /\ stmts'[h].done = "alive"
                       /\ pending' = Append(pending, CloseFrame("S", stmts[h].name, h))
            /\ (pc[t] = "sdrop_send" /\ pc'[t] # "sdrop_send") =>
                 /\ last'.ok /\ sent' = sent /\ pending' = pending
                 /\ pc'[t] = "idle" /\ stmts'[h].done = "alive"
            /\ (pc[t] = "idle" /\ pc'[t] = "pdrop_send") =>
                 /\ last'.ok /\ sent' = sent /\ pending' = <<>>
            /\ (pc[t] = "pdrop_send" /\ pc'[t] # "pdrop_send") =>
                 /\ last'.ok /\ sent' = sent /\ pending' = pending
                 /\ portals'[h].done = "alive"
                 /\ pc'[t] \in {"idle", "sdrop_write"}]_vars

\* the connection was closed with nothing sent; a portal and then its
\* statement have been dropped since, both destructors ran to their end
C22_Witness ==
  /\ ~connOpen /\ client /\ sent = <<>>
  /\ last.op = "sdrop_send"
  /\ Len(portals) = 1 /\ portals[1].done = "alive"
  /\ stmts[portals[1].stmt].done = "alive"

\* reads n parameter values back from a Bind frame, as the server does
RECURSIVE DecodeValues(_, _)
DecodeValues(items, n) ==
  IF n = 0 THEN [ok |-> TRUE, vals |-> <<>>, rest |-> items]
  ELSE IF items = <<>> \/ Head(items).f # "i32"
  THEN [ok |-> FALSE, vals |-> <<>>, rest |-> items]
  ELSE LET size == Head(items).v
           body == Tail(items)
       IN IF size = -1
          THEN LET d == DecodeValues(body, n - 1)
               IN [d EXCEPT !.vals = <<None>> \o @]
          ELSE IF size < 0 \/ Len(body) < size
                  \/ \E i \in 1..size : body[i].f # "u8"
          THEN [ok |-> FALSE, vals |-> <<>>, rest |-> items]
          ELSE LET d == DecodeValues(SubSeq(body, size + 1, Len(body)), n - 1)
               IN [d EXCEPT !.vals = <<Some([i \in 1..size |-> body[i].v])>> \o @]

EncodeColumn(col) ==
  IF col = None THEN <<255, 255, 255, 255>>
  ELSE <<0, 0, 0, Len(col.bytes)>> \o col.bytes

RECURSIVE EncodeColumns(_)
EncodeColumns(cols) ==
  IF cols = <<>> THEN <<>>
  ELSE EncodeColumn(Head(cols)) \o EncodeColumns(Tail(cols))

\* a valid DataRow payload from offset pos on: n columns, each a length and
\* that many bytes, or the length -1, and nothing behind the last one
RECURSIVE ValidFrom(_, _, _)
ValidFrom(storage, pos, n) ==
  IF n = 0 THEN pos = Len(storage)
  ELSE \E next \in (pos + 4)..Len(storage) :
         /\ \/ ReadI32(storage, pos) = -1 /\ next = pos + 4
            \/ ReadI32(storage, pos) >= 0 /\ next = pos + 4 + ReadI32(storage, pos)
         /\ ValidFrom(storage, next, n - 1)

ValidBody(body) == ValidFrom(body.storage, 0, body.len)

\* C24: for a valid DataRow body Row::new returns a Row whose len() is the
\* advertised column count, whose is_empty() is true exactly when len() is
\* 0, and whose get(i), for every i < len(), is None when column i is NULL
\* and otherwise the bytes of column i, a slice inside the payload; for a
\* malformed body Row::new fails with Parse.
C24_RowView ==
  (codec.op = "row_new" /\ codec.done) =>
    LET body == codec.args
        out == codec.out
    IN /\ out.ok = ValidBody(body)
       /\ ~out.ok => out.err = "Parse"
       /\ out.ok =>
            /\ Len(out.row.ranges) = body.len
            /\ \A i \in 1..Len(out.row.ranges) :
                 LET r == out.row.ranges[i] IN
                 r # None =>
                   /\ 0 <= r.bytes.start /\ r.bytes.start <= r.bytes.end
                   /\ r.bytes.end <= Len(body.storage)
       /\ (out.ok /\ out.read) =>
            /\ out.len = body.len
            /\ out.is_empty = (out.len = 0)
            /\ Len(out.get) = out.len
            /\ \A i \in 1..out.len :
                 (out.get[i] = None) = (ReadI32(body.storage, Len(EncodeColumns(SubSeq(out.get, 1, i - 1)))) = -1)
            /\ EncodeColumns(out.get) = body.storage

\* a Row of two columns has been read: a NULL and a value of one byte
C24_Witness ==
  /\ codec.op = "row_new" /\ codec.done /\ codec.out.ok /\ codec.out.read
  /\ codec.out.len = 2 /\ ~codec.out.is_empty
  /\ \E b \in {0, 1, 255} : codec.out.get = <<None, Some(<<b>>)>>

\* Row::new has failed with Parse on a body whose last value is cut short
C24_WitnessParse ==
  /\ codec.op = "row_new" /\ codec.done /\ ~codec.out.ok
  /\ codec.args = DataRowBody(1, <<0, 0, 0, 1>>)

====
